---- MODULE Spec2Model ----
(***************************************************************************)
(* Temporal lifecycle engine of home_manager: maintenance items and tasks, *)
(* their due-date classification, completion rollover and status changes.  *)
(*                                                                         *)
(* Python values are represented as follows.                               *)
(*   - an optional value (a nullable column, an argument defaulting to     *)
(*     None) is a sequence of length 0 (None) or 1 (the value);            *)
(*   - a datetime.date is a record [year, month, day];                     *)
(*   - a datetime.datetime is a record [date, time], time counting the     *)
(*     instants of one day;                                                *)
(*   - a str is a sequence of one-character strings.                       *)
(***************************************************************************)
EXTENDS Integers, Sequences, FiniteSets, TLC

VARIABLES
    today,      \* the value date.today() returns now
    timeOfDay,  \* the instant within today; datetime.now() is (today, timeOfDay)
    item,       \* one MaintenanceItem row
    dash,       \* what render_dashboard last computed for item
    upc,        \* what upcoming_maintenance last computed for item
    task,       \* one Task row
    stats,      \* what task_stats last computed for task
    task0,      \* the Task row as it was created (never changes)
    lastOp,     \* the engine command invoked last and the day of the invocation
    db,         \* the tasks table: the dialect of the engine and the Task rows by id
    listing,    \* what task_list last computed from db
    maintenance_items,  \* the maintenance_items table of the aggregations: a list of rows
    chart,      \* what category_chart or priority_chart last drew from maintenance_items
    sessions,   \* SessionManager.active_sessions: the session data by token
    utcnow,     \* the minute datetime.utcnow() returns now
    ret         \* the last call of the SessionManager and what it returned

vars ==
    <<today, timeOfDay, item, dash, upc, task, stats, task0, lastOp, db, listing,
      maintenance_items, chart, sessions, utcnow, ret>>

(***************************************************************************)
(* Optional values                                                         *)
(***************************************************************************)
None == <<>>
Some(v) == <<v>>
Get(o) == o[1]
Opt(S) == {None} \cup {Some(v) : v \in S}

Min(a, b) == IF a <= b THEN a ELSE b

(***************************************************************************)
(* datetime.date                                                           *)
(***************************************************************************)
Date(y, m, d) == [year |-> y, month |-> m, day |-> d]

IsLeap(y) == y % 4 = 0 /\ (y % 100 # 0 \/ y % 400 = 0)

DaysInMonth(y, m) ==
    IF m = 2 THEN (IF IsLeap(y) THEN 29 ELSE 28)
    ELSE IF m \in {4, 6, 9, 11} THEN 30 ELSE 31

RECURSIVE DaysBeforeMonth(_, _)
DaysBeforeMonth(y, m) ==
    IF m <= 1 THEN 0 ELSE DaysBeforeMonth(y, m - 1) + DaysInMonth(y, m - 1)

DaysBeforeYear(y) ==
    LET p == y - 1 IN p * 365 + (p \div 4) - (p \div 100) + (p \div 400)

\* date.toordinal()
ToOrdinal(dt) == DaysBeforeYear(dt.year) + DaysBeforeMonth(dt.year, dt.month) + dt.day

\* date.__gt__: comparison of (year, month, day)
DateGT(a, b) ==
    \/ a.year > b.year
    \/ a.year = b.year /\ a.month > b.month
    \/ a.year = b.year /\ a.month = b.month /\ a.day > b.day

\* date.__lt__
DateLT(a, b) == DateGT(b, a)

\* (a - b).days
DaysBetween(a, b) == ToOrdinal(a) - ToOrdinal(b)

\* dt + timedelta(days=1)
NextDay(dt) ==
    IF dt.day < DaysInMonth(dt.year, dt.month) THEN Date(dt.year, dt.month, dt.day + 1)
    ELSE IF dt.month < 12 THEN Date(dt.year, dt.month + 1, 1)
    ELSE Date(dt.year + 1, 1, 1)

\* dt + timedelta(days=k), k >= 0
RECURSIVE PlusDays(_, _)
PlusDays(dt, k) == IF k <= 0 THEN dt ELSE PlusDays(NextDay(dt), k - 1)

\* The 30-day approximation of a month (not what the code does).
AddMonthsFixed30(dt, months) == PlusDays(dt, 30 * months)

\* The month moved and the day set to the last of the month (not what the code does).
AddMonthsMonthEnd(dt, months) ==
    LET idx == dt.year * 12 + (dt.month - 1) + months
    IN  Date(idx \div 12, (idx % 12) + 1, DaysInMonth(idx \div 12, (idx % 12) + 1))

\* dt + relativedelta(months=months): the constructor folds whole years out of
\* months, the addition moves the month, carries into the year and clamps the day.
AddMonths(dt, months) ==
    LET s      == IF months < 0 THEN 0 - 1 ELSE 1
        mag    == months * s
        years  == IF mag > 11 THEN (mag \div 12) * s ELSE 0
        rem    == IF mag > 11 THEN (mag % 12) * s ELSE months
        m0     == dt.month + rem
        year   == IF m0 > 12 THEN dt.year + years + 1
                  ELSE IF m0 < 1 THEN dt.year + years - 1
                  ELSE dt.year + years
        month  == IF m0 > 12 THEN m0 - 12 ELSE IF m0 < 1 THEN m0 + 12 ELSE m0
    IN  Date(year, month, Min(DaysInMonth(year, month), dt.day))

(***************************************************************************)
(* Bounds                                                                  *)
(***************************************************************************)
ClockDays == 1          \* the clock runs over WindowStart .. WindowStart + ClockDays
TimesPerDay == 1        \* timeOfDay runs over 0 .. TimesPerDay
DueSpan == 9            \* due dates lie in WindowStart .. WindowStart + DueSpan
MaxFreq == 2            \* frequency_months runs over -MaxNegFreq .. MaxFreq
MaxNegFreq == 1
MaxCost == 0            \* actual_cost runs over 0 .. MaxCost
CalcYears == 2          \* the recurrence calculator's anchors span this many years
MaxCalcMonths == 13     \* and its frequencies 1 .. MaxCalcMonths

WindowStart == Date(2024, 1, 30)
LastDay == PlusDays(WindowStart, ClockDays)
FarFuture == Date(9999, 12, 31)     \* date.max

ClockDates == {PlusDays(WindowStart, k) : k \in 0..ClockDays}
DueDates == {PlusDays(WindowStart, k) : k \in 0..DueSpan} \cup {FarFuture}
CompletionDates == {Date(2024, 3, 10), Date(2023, 1, 31)}
Frequencies == (0 - MaxNegFreq)..MaxFreq
Costs == 0..MaxCost

CalcAnchors ==
    {Date(y, m, d) : y \in 2023..(2023 + CalcYears - 1), m \in 1..12, d \in 1..31}
CalcDates == {dt \in CalcAnchors : dt.day <= DaysInMonth(dt.year, dt.month)}

(***************************************************************************)
(* models/maintenance.py: MaintenanceItem                                  *)
(***************************************************************************)
\* MaintenanceItem.is_overdue(); clock is what date.today() returns
MaintenanceItem_is_overdue(self, clock) ==
    IF self.next_due_date = None THEN FALSE
    ELSE DateGT(clock, Get(self.next_due_date))

MaintenanceSentinel == 999999

\* MaintenanceItem.days_until_due()
MaintenanceItem_days_until_due(self, clock) ==
    IF self.next_due_date = None THEN MaintenanceSentinel
    ELSE DaysBetween(Get(self.next_due_date), clock)

\* calculate_next_due_date without the test of is_recurring
MaintenanceItem_calculate_next_due_date_AnyItem(self, clock) ==
    IF self.frequency_months = None THEN self
    ELSE LET base_date == IF self.last_completed_date # None
                          THEN Get(self.last_completed_date) ELSE clock
         IN  [self EXCEPT !.next_due_date =
                  Some(AddMonths(base_date, Get(self.frequency_months)))]

\* calculate_next_due_date chaining from the previous due date when there is one
MaintenanceItem_calculate_next_due_date_FromDue(self, clock) ==
    IF ~self.is_recurring \/ self.frequency_months = None THEN self
    ELSE LET base_date == IF self.next_due_date # None THEN Get(self.next_due_date)
                          ELSE IF self.last_completed_date # None
                          THEN Get(self.last_completed_date) ELSE clock
         IN  [self EXCEPT !.next_due_date =
                  Some(AddMonths(base_date, Get(self.frequency_months)))]

\* calculate_next_due_date taking a missing frequency for one month
MaintenanceItem_calculate_next_due_date_DefaultMonthly(self, clock) ==
    IF ~self.is_recurring THEN self
    ELSE LET base_date == IF self.last_completed_date # None
                          THEN Get(self.last_completed_date) ELSE clock
             months == IF self.frequency_months # None
                       THEN Get(self.frequency_months) ELSE 1
         IN  [self EXCEPT !.next_due_date = Some(AddMonths(base_date, months))]

\* MaintenanceItem.calculate_next_due_date()
MaintenanceItem_calculate_next_due_date(self, clock) ==
    IF ~self.is_recurring \/ self.frequency_months = None THEN self
    ELSE LET base_date == IF self.last_completed_date # None
                          THEN Get(self.last_completed_date) ELSE clock
         IN  [self EXCEPT !.next_due_date =
                  Some(AddMonths(base_date, Get(self.frequency_months)))]

\* mark_completed without the reset of the status of a recurring item
MaintenanceItem_mark_completed_NoReset(self, completion_date, actual_cost, clock) ==
    LET s1 == [self EXCEPT !.status = "completed",
                           !.last_completed_date =
                               IF completion_date # None THEN completion_date
                               ELSE Some(clock)]
        s2 == IF actual_cost # None THEN [s1 EXCEPT !.actual_cost = actual_cost] ELSE s1
    IN  IF s2.is_recurring
        THEN MaintenanceItem_calculate_next_due_date(s2, clock)
        ELSE s2

\* mark_completed with the rollover done whether or not the item is recurring
MaintenanceItem_mark_completed_AlwaysRollover(self, completion_date, actual_cost, clock) ==
    LET s1 == [self EXCEPT !.status = "completed",
                           !.last_completed_date =
                               IF completion_date # None THEN completion_date
                               ELSE Some(clock)]
        s2 == IF actual_cost # None THEN [s1 EXCEPT !.actual_cost = actual_cost] ELSE s1
    IN  IF s2.frequency_months # None
        THEN [s2 EXCEPT !.next_due_date =
                  Some(AddMonths(Get(s2.last_completed_date), Get(s2.frequency_months)))]
        ELSE s2

\* mark_completed storing the cost only when it is truthy
MaintenanceItem_mark_completed_TruthyCost(self, completion_date, actual_cost, clock) ==
    LET s1 == [self EXCEPT !.status = "completed",
                           !.last_completed_date =
                               IF completion_date # None THEN completion_date
                               ELSE Some(clock)]
        s2 == IF actual_cost # None /\ Get(actual_cost) # 0
              THEN [s1 EXCEPT !.actual_cost = actual_cost] ELSE s1
    IN  IF s2.is_recurring
        THEN [MaintenanceItem_calculate_next_due_date(s2, clock) EXCEPT !.status = "pending"]
        ELSE s2

\* mark_completed rolling over only an item that has no due date yet
MaintenanceItem_mark_completed_KeepDue(self, completion_date, actual_cost, clock) ==
    LET s1 == [self EXCEPT !.status = "completed",
                           !.last_completed_date =
                               IF completion_date # None THEN completion_date
                               ELSE Some(clock)]
        s2 == IF actual_cost # None THEN [s1 EXCEPT !.actual_cost = actual_cost] ELSE s1
    IN  IF s2.is_recurring
        THEN [(IF s2.next_due_date = None
               THEN MaintenanceItem_calculate_next_due_date(s2, clock)
               ELSE s2) EXCEPT !.status = "pending"]
        ELSE s2

\* MaintenanceItem.mark_completed(completion_date, actual_cost). date.today() is
\* read once: calculate_next_due_date finds last_completed_date already set. The
\* row's updated_at stamp, which no operation reads, is not part of the row here.
MaintenanceItem_mark_completed(self, completion_date, actual_cost, clock) ==
    LET s1 == [self EXCEPT !.status = "completed",
                           !.last_completed_date =
                               IF completion_date # None THEN completion_date
                               ELSE Some(clock)]
        s2 == IF actual_cost # None THEN [s1 EXCEPT !.actual_cost = actual_cost] ELSE s1
    IN  IF s2.is_recurring
        THEN [MaintenanceItem_calculate_next_due_date(s2, clock) EXCEPT !.status = "pending"]
        ELSE s2

(***************************************************************************)
(* app.py: render_dashboard, the charts and upcoming_maintenance.           *)
(* Every call of is_overdue() and days_until_due() reads date.today()      *)
(* again, so each takes the clock value of its own read.                   *)
(***************************************************************************)
DueSoonDays == 7

\* the rows of db.query(MaintenanceItem).filter(MaintenanceItem.is_active == True)
\* over the rows of the table
IsActive(self) == self.is_active
ActiveItems(table) == SelectSeq(table, IsActive)

\* an empty dict, and the dict {"No Data": 1}
EmptyDict == [k \in {} |-> 0]
NoData == [k \in {"No Data"} |-> 1]

\* counts = {}; for item in items: counts[item.field] = counts.get(item.field, 0) + 1
\* with the placeholder put in place of every count
RECURSIVE count_by_Ones(_, _)
count_by_Ones(items, field) ==
    IF items = <<>> THEN EmptyDict
    ELSE LET counts == count_by_Ones(SubSeq(items, 1, Len(items) - 1), field)
             key    == items[Len(items)][field]
         IN  [k \in DOMAIN counts \cup {key} |-> 1]

\* counts = {}; for item in items: counts[item.field] = counts.get(item.field, 0) + 1
RECURSIVE count_by(_, _)
count_by(items, field) ==
    IF items = <<>> THEN EmptyDict
    ELSE LET counts == count_by(SubSeq(items, 1, Len(items) - 1), field)
             key    == items[Len(items)][field]
         IN  [k \in DOMAIN counts \cup {key} |->
                 IF k = key
                 THEN (IF key \in DOMAIN counts THEN counts[key] ELSE 0) + 1
                 ELSE counts[k]]

\* if maintenance_items: <the counts by field> else: {"No Data": 1}
aggregate(items, field) ==
    IF items # <<>> THEN count_by(items, field) ELSE NoData

\* len([item for item in maintenance_items if item.is_overdue()])
Dashboard_overdue_items(items, r1) ==
    Cardinality({i \in DOMAIN items : MaintenanceItem_is_overdue(items[i], r1)})

\* the due-soon test with its upper limit off by one
Dashboard_is_due_soon_Exclusive(self, r2, r3) ==
    /\ 0 <= MaintenanceItem_days_until_due(self, r2)
    /\ MaintenanceItem_days_until_due(self, r2) < DueSoonDays
    /\ ~MaintenanceItem_is_overdue(self, r3)

\* the due-soon test without its lower limit and its test of is_overdue
Dashboard_is_due_soon_NoLowerBound(self, r2, r3) ==
    MaintenanceItem_days_until_due(self, r2) <= DueSoonDays

\* 0 <= item.days_until_due() <= 7 and not item.is_overdue()
Dashboard_is_due_soon(self, r2, r3) ==
    /\ 0 <= MaintenanceItem_days_until_due(self, r2)
    /\ MaintenanceItem_days_until_due(self, r2) <= DueSoonDays
    /\ ~MaintenanceItem_is_overdue(self, r3)

Dashboard_due_soon_items(items, r2, r3) ==
    Cardinality({i \in DOMAIN items : Dashboard_is_due_soon(items[i], r2, r3)})

\* the completions of the current month of the current year only
Dashboard_completed_this_month_SameYear(items, r4) ==
    Cardinality({i \in DOMAIN items :
        /\ items[i].last_completed_date # None
        /\ Get(items[i].last_completed_date).month = r4.month
        /\ Get(items[i].last_completed_date).year = r4.year})

\* item.last_completed_date and item.last_completed_date.month == date.today().month
Dashboard_completed_this_month(items, r4) ==
    Cardinality({i \in DOMAIN items :
        /\ items[i].last_completed_date # None
        /\ Get(items[i].last_completed_date).month = r4.month})

NotRendered == [rendered |-> FALSE]

\* The clock values four successive reads of date.today() can return when the
\* first returns t: the date changes at most once while one page is computed.
ClockReads(t) ==
    {<<t, t, t, t>>} \cup
    (IF DateLT(t, LastDay)
     THEN {<<t, t, t, NextDay(t)>>, <<t, t, NextDay(t), NextDay(t)>>,
           <<t, NextDay(t), NextDay(t), NextDay(t)>>}
     ELSE {})

\* The same for two successive reads.
ClockReads2(t) ==
    {<<t, t>>} \cup (IF DateLT(t, LastDay) THEN {<<t, NextDay(t)>>} ELSE {})

\* app.py render_dashboard over the rows of the table
render_dashboard(table, r) ==
    LET items == ActiveItems(table)
    IN  [rendered |-> TRUE,
         reads |-> r,
         total_items |-> Len(items),
         overdue_items |-> Dashboard_overdue_items(items, r[1]),
         due_soon_items |-> Dashboard_due_soon_items(items, r[2], r[3]),
         completed_this_month |-> Dashboard_completed_this_month(items, r[4]),
         category_counts |-> aggregate(items, "category"),
         priority_counts |-> aggregate(items, "priority")]

\* app.py category_chart: px.pie over the counts, or over the one name "No Data"
category_chart(table) ==
    LET items == ActiveItems(table)
    IN  [rendered |-> TRUE, kind |-> "pie",
         counts |-> IF items = <<>> THEN NoData ELSE count_by(items, "category")]

\* app.py priority_chart: px.bar over the counts, or over the one name "No Data"
priority_chart(table) ==
    LET items == ActiveItems(table)
    IN  [rendered |-> TRUE, kind |-> "bar",
         counts |-> IF items = <<>> THEN NoData ELSE count_by(items, "priority")]

\* the status of one listed row: days_until_due() is read first, then is_overdue()
upcoming_status_class(self, u1, u2) ==
    LET days_until == MaintenanceItem_days_until_due(self, u1)
    IN  IF MaintenanceItem_is_overdue(self, u2) THEN "status-overdue"
        ELSE IF days_until <= DueSoonDays THEN "status-due-soon"
        ELSE "status-upcoming"

upcoming_maintenance(self, r) ==
    LET listed == self.is_active /\ self.next_due_date # None
    IN  [rendered |-> TRUE,
         reads |-> r,
         listed |-> listed,
         days_until |-> IF listed THEN MaintenanceItem_days_until_due(self, r[1]) ELSE 0,
         status_class |-> IF listed THEN upcoming_status_class(self, r[1], r[2])
                          ELSE "none"]

(***************************************************************************)
(* Clock                                                                   *)
(***************************************************************************)
\* midnight passes
Tick ==
    /\ DateLT(today, LastDay)
    /\ today' = NextDay(today)
    /\ timeOfDay' = 0
    /\ dash' = NotRendered
    /\ upc' = NotRendered
    /\ stats' = NotRendered
    /\ listing' = NotRendered
    /\ UNCHANGED <<item, task, task0, lastOp, db, maintenance_items, chart, sessions, utcnow, ret>>

\* time passes within the day
Advance ==
    /\ timeOfDay < TimesPerDay
    /\ timeOfDay' = timeOfDay + 1
    /\ UNCHANGED <<today, item, dash, upc, task, stats, task0, lastOp, db, listing, maintenance_items, chart, sessions, utcnow, ret>>

Now == [date |-> today, time |-> timeOfDay]

\* what lastOp records: no command yet, the command op of the task invoked
\* today, or the command op of the item and the completion it found recorded
NoCall == [op |-> "none"]
Call(op) == [op |-> op, day |-> Some(today)]
ItemCall(op) == [op |-> op, before |-> item.last_completed_date]

(***************************************************************************)
(* Maintenance lifecycle                                                   *)
(***************************************************************************)
DefaultItem ==
    [next_due_date |-> None, last_completed_date |-> None, status |-> "pending",
     is_recurring |-> TRUE, frequency_months |-> None, actual_cost |-> None,
     is_active |-> TRUE, category |-> "HVAC", priority |-> "medium"]

NewItems ==
    [next_due_date : Opt(DueDates), last_completed_date : {None},
     status : {"pending", "in_progress", "cancelled"},
     is_recurring : BOOLEAN, frequency_months : Opt(Frequencies),
     actual_cost : {None}, is_active : {TRUE},
     category : {"HVAC"}, priority : {"medium"}]

MarkCompleted ==
    /\ \E completion_date \in Opt(CompletionDates), actual_cost \in Opt(Costs) :
           item' = MaintenanceItem_mark_completed(item, completion_date, actual_cost, today)
    /\ dash' = NotRendered
    /\ upc' = NotRendered
    /\ lastOp' = ItemCall("mark_completed")
    /\ UNCHANGED <<today, timeOfDay, task, stats, task0, db, listing, maintenance_items, chart, sessions, utcnow, ret>>

\* item.calculate_next_due_date() invoked on its own
CalculateNextDue ==
    /\ item' = MaintenanceItem_calculate_next_due_date(item, today)
    /\ dash' = NotRendered
    /\ upc' = NotRendered
    /\ lastOp' = ItemCall("calculate_next_due_date")
    /\ UNCHANGED <<today, timeOfDay, task, stats, task0, db, listing, maintenance_items, chart, sessions, utcnow, ret>>

\* app.py render_dashboard; when midnight passes between its clock reads, what
\* was computed before is reset as by Tick
RenderDashboard ==
    /\ \E r \in ClockReads(today) :
           /\ dash' = render_dashboard(<<item>>, r)
           /\ today' = r[4]
           /\ timeOfDay' = IF r[4] = today THEN timeOfDay ELSE 0
           /\ upc' = IF r[4] = today THEN upc ELSE NotRendered
    /\ UNCHANGED <<item, task, stats, task0, lastOp, db, listing, maintenance_items, chart, sessions, utcnow, ret>>

\* app.py upcoming_maintenance; likewise
UpcomingMaintenance ==
    /\ \E r \in ClockReads2(today) :
           /\ upc' = upcoming_maintenance(item, r)
           /\ today' = r[2]
           /\ timeOfDay' = IF r[2] = today THEN timeOfDay ELSE 0
           /\ dash' = IF r[2] = today THEN dash ELSE NotRendered
    /\ UNCHANGED <<item, task, stats, task0, lastOp, db, listing, maintenance_items, chart, sessions, utcnow, ret>>

(***************************************************************************)
(* str                                                                     *)
(***************************************************************************)
Whitespace == {" ", "\n", "\t"}

RECURSIVE LStrip(_)
LStrip(s) == IF s = <<>> \/ Head(s) \notin Whitespace THEN s ELSE LStrip(Tail(s))

RECURSIVE RStrip(_)
RStrip(s) ==
    IF s = <<>> \/ s[Len(s)] \notin Whitespace THEN s
    ELSE RStrip(SubSeq(s, 1, Len(s) - 1))

\* str.strip()
Strip(s) == RStrip(LStrip(s))

IsPrefix(p, s) == Len(p) <= Len(s) /\ SubSeq(s, 1, Len(p)) = p

\* "\nCompleted by: "
CompletedByText == <<"\n", "C", "o", "m", "p", "l", "e", "t", "e", "d", " ", "b", "y", ":", " ">>

RECURSIVE StringsUpTo(_, _)
StringsUpTo(chars, n) ==
    IF n = 0 THEN {<<>>}
    ELSE LET shorter == StringsUpTo(chars, n - 1)
         IN  shorter \cup {Append(s, c) : s \in shorter, c \in chars}

(***************************************************************************)
(* models/task.py: Task                                                    *)
(***************************************************************************)
TaskDueSpan == 2        \* task due dates lie in WindowStart .. WindowStart + TaskDueSpan
MaxNameLen == 1         \* length of completed_by
MaxNotesLen == 18       \* notes are not grown beyond this length

\* the notes a task is stored with: none, empty, plain, with leading or trailing blank
InitialNotes == Opt({<<>>, <<"a">>, <<" ", "a">>, <<"a", " ">>})
NameChars == {"u"}
TaskDueDates == {PlusDays(WindowStart, k) : k \in 0..TaskDueSpan}
CompletedByValues == Opt(StringsUpTo(NameChars, MaxNameLen))
TaskStatuses == {"pending", "in_progress", "completed", "cancelled"}

TaskSentinel == 999

\* Task.is_overdue, ignoring the status
Task_is_overdue_AnyStatus(self, clock) ==
    IF self.due_date # None THEN DateGT(clock, Get(self.due_date)) ELSE FALSE

\* Task.is_overdue, with only the cancelled status excluded
Task_is_overdue_OnlyCancelled(self, clock) ==
    IF self.due_date # None /\ self.status # "cancelled"
    THEN DateGT(clock, Get(self.due_date))
    ELSE FALSE

\* Task.is_overdue
Task_is_overdue(self, clock) ==
    IF self.due_date # None /\ self.status \notin {"completed", "cancelled"}
    THEN DateGT(clock, Get(self.due_date))
    ELSE FALSE

\* Task.days_until_due
Task_days_until_due(self, clock) ==
    IF self.due_date # None THEN DaysBetween(Get(self.due_date), clock)
    ELSE TaskSentinel

\* f"{self.notes or ''}\nCompleted by: {completed_by}".strip()
CompletedNotes(notes, completed_by) ==
    Strip((IF notes = None THEN <<>> ELSE Get(notes)) \o CompletedByText \o completed_by)

\* Task.mark_completed assigning the task to whoever completed it
Task_mark_completed_Reassign(self, completed_by, now) ==
    LET s1 == [self EXCEPT !.status = "completed", !.completed_date = Some(now)]
    IN  IF completed_by # None /\ Get(completed_by) # <<>>
        THEN [s1 EXCEPT !.notes = Some(CompletedNotes(self.notes, Get(completed_by))),
                        !.assigned_to = completed_by]
        ELSE s1

\* Task.mark_completed(completed_by); now is what datetime.now() returns
Task_mark_completed(self, completed_by, now) ==
    LET s1 == [self EXCEPT !.status = "completed", !.completed_date = Some(now)]
    IN  IF completed_by # None /\ Get(completed_by) # <<>>
        THEN [s1 EXCEPT !.notes = Some(CompletedNotes(self.notes, Get(completed_by)))]
        ELSE s1

\* Task.mark_in_progress() setting start_date on every call
Task_mark_in_progress_Restart(self, clock) ==
    [self EXCEPT !.status = "in_progress", !.start_date = Some(clock)]

\* Task.mark_in_progress() setting start_date whenever it is not the current date
Task_mark_in_progress_LaterDay(self, clock) ==
    [self EXCEPT !.status = "in_progress",
                 !.start_date = IF self.start_date = Some(clock) THEN @ ELSE Some(clock)]

\* Task.mark_in_progress(); clock is what date.today() returns
Task_mark_in_progress(self, clock) ==
    LET s1 == [self EXCEPT !.status = "in_progress"]
    IN  IF self.start_date = None THEN [s1 EXCEPT !.start_date = Some(clock)] ELSE s1

\* the rows of db.query(Task).filter(Task.is_active == True) over the rows
\* of the table
ActiveTasks(table) == SelectSeq(table, IsActive)

\* task_stats counting every open task, in progress or not, as pending
task_stats_OpenAsPending(table, clock) ==
    LET all_tasks == ActiveTasks(table)
        Count(P(_)) == Cardinality({i \in DOMAIN all_tasks : P(all_tasks[i])})
        IsOpen(t) == t.status \in {"pending", "in_progress"}
        IsInProgress(t) == t.status = "in_progress"
        IsCompleted(t) == t.status = "completed"
        IsOverdue(t) == Task_is_overdue(t, clock)
    IN  [rendered |-> TRUE,
         total_tasks |-> Len(all_tasks),
         pending_tasks |-> Count(IsOpen),
         in_progress_tasks |-> Count(IsInProgress),
         completed_tasks |-> Count(IsCompleted),
         overdue_tasks |-> Count(IsOverdue)]

\* app.py task_stats: the counts over the active tasks
task_stats(table, clock) ==
    LET all_tasks == ActiveTasks(table)
        Count(P(_)) == Cardinality({i \in DOMAIN all_tasks : P(all_tasks[i])})
        IsPending(t) == t.status = "pending"
        IsInProgress(t) == t.status = "in_progress"
        IsCompleted(t) == t.status = "completed"
        IsOverdue(t) == Task_is_overdue(t, clock)
    IN  [rendered |-> TRUE,
         total_tasks |-> Len(all_tasks),
         pending_tasks |-> Count(IsPending),
         in_progress_tasks |-> Count(IsInProgress),
         completed_tasks |-> Count(IsCompleted),
         overdue_tasks |-> Count(IsOverdue)]

DefaultTask ==
    [status |-> "pending", due_date |-> None, start_date |-> None,
     completed_date |-> None, notes |-> None, is_active |-> TRUE,
     priority |-> "medium", category |-> "other", assigned_to |-> None]

\* The rows a task can be stored as before the engine's commands act on it.
NewTasks ==
    {t \in [status : TaskStatuses, due_date : Opt(TaskDueDates),
            start_date : Opt({WindowStart}),
            completed_date : Opt({[date |-> WindowStart, time |-> 0]}),
            notes : InitialNotes,
            is_active : BOOLEAN,
            priority : {"high"}, category : {"cleaning"},
            assigned_to : {Some(<<"M", "o", "m">>)}] :
        /\ (t.completed_date # None) <=> (t.status = "completed")
        /\ (t.status = "in_progress") => (t.start_date # None)
        /\ (t.status = "pending") => (t.start_date = None)}

\* app.py handle_task_completion: task.mark_completed(completed_by); db.commit()
TaskMarkCompleted ==
    /\ \E completed_by \in CompletedByValues :
           /\ task' = Task_mark_completed(task, completed_by, Now)
           /\ task'.notes # None => Len(Get(task'.notes)) <= MaxNotesLen
    /\ stats' = NotRendered
    /\ lastOp' = Call("mark_completed")
    /\ UNCHANGED <<today, timeOfDay, item, dash, upc, task0, db, listing, maintenance_items, chart, sessions, utcnow, ret>>

\* app.py handle_task_progress: task.mark_in_progress(); db.commit()
TaskMarkInProgress ==
    /\ task' = Task_mark_in_progress(task, today)
    /\ stats' = NotRendered
    /\ lastOp' = Call("mark_in_progress")
    /\ UNCHANGED <<today, timeOfDay, item, dash, upc, task0, db, listing, maintenance_items, chart, sessions, utcnow, ret>>

\* app.py task_stats
TaskStats ==
    /\ stats' = task_stats(<<task>>, today)
    /\ UNCHANGED <<today, timeOfDay, item, dash, upc, task, task0, lastOp, db, listing, maintenance_items, chart, sessions, utcnow, ret>>

(***************************************************************************)
(* app.py: task_list                                                       *)
(***************************************************************************)
Alphabet ==
    <<"A", "B", "C", "D", "E", "F", "G", "H", "I", "J", "K", "L", "M",
      "N", "O", "P", "Q", "R", "S", "T", "U", "V", "W", "X", "Y", "Z">>

\* the code point order of the capital letters
Ord(c) == CHOOSE i \in DOMAIN Alphabet : Alphabet[i] = c

\* s < t for two strings of a text column (binary collation)
StrLess(s, t) ==
    \E i \in 1..(Min(Len(s), Len(t)) + 1) :
        /\ \A j \in 1..(i - 1) : s[j] = t[j]
        /\ IF i > Len(s) THEN i <= Len(t)
           ELSE i <= Len(t) /\ Ord(s[i]) < Ord(t[i])

\* class TaskPriority, in the order of its declaration, by value
TaskPriorities == <<"low", "medium", "high", "urgent">>

\* the name of the member of TaskPriority with the value p
PriorityName(p) ==
    CASE p = "low" -> <<"L", "O", "W">>
      [] p = "medium" -> <<"M", "E", "D", "I", "U", "M">>
      [] p = "high" -> <<"H", "I", "G", "H">>
      [] p = "urgent" -> <<"U", "R", "G", "E", "N", "T">>

\* the position of p in the declaration of TaskPriority
PriorityIndex(p) == CHOOSE i \in DOMAIN TaskPriorities : TaskPriorities[i] = p

\* The engines DATABASE_URL selects.  Column(Enum(TaskPriority)) stores the
\* member name: in a VARCHAR column on sqlite, in a native ENUM type, which
\* orders its labels as declared, on postgresql.
Dialects == {"sqlite", "postgresql"}

\* p < q as the engine compares two values of the priority column
PriorityLess(dialect, p, q) ==
    IF dialect = "sqlite" THEN StrLess(PriorityName(p), PriorityName(q))
    ELSE PriorityIndex(p) < PriorityIndex(q)

\* x sorts before y under Task.due_date.asc().nullslast()
DueBefore(x, y) == x # None /\ (y = None \/ DateLT(Get(x), Get(y)))

\* a sorts before b under order_by(Task.priority.desc(), Task.due_date.asc().nullslast())
RowBefore(dialect, a, b) ==
    \/ PriorityLess(dialect, b.priority, a.priority)
    \/ a.priority = b.priority /\ DueBefore(a.due_date, b.due_date)

StatusFilters == {"all", "overdue"} \cup TaskStatuses
CategoryFilters == {"all", "cleaning", "other"}

\* the filters with the overdue filter taking the tasks due today as well
Selected_DueToday(t, status_filter, category_filter, clock) ==
    /\ t.is_active
    /\ CASE status_filter = "all" -> TRUE
         [] status_filter = "overdue" ->
                /\ t.due_date # None
                /\ ~DateGT(Get(t.due_date), clock)
                /\ t.status \in {"pending", "in_progress"}
         [] OTHER -> t.status = status_filter
    /\ category_filter # "all" => t.category = category_filter

\* the filters of the query on one row
Selected(t, status_filter, category_filter, clock) ==
    /\ t.is_active
    /\ CASE status_filter = "all" -> TRUE
         [] status_filter = "overdue" ->
                /\ t.due_date # None
                /\ DateLT(Get(t.due_date), clock)
                /\ t.status \in {"pending", "in_progress"}
         [] OTHER -> t.status = status_filter
    /\ category_filter # "all" => t.category = category_filter

\* the styling of the card of one task
CardStatusClass(t, clock) ==
    IF Task_is_overdue(t, clock) THEN "border-danger"
    ELSE IF t.status = "completed" THEN "border-success"
    ELSE IF t.status = "in_progress" THEN "border-info"
    ELSE "border-warning"

\* the due date text of the card of one task
CardDueText(t, clock) ==
    IF t.due_date = None THEN "none"
    ELSE LET days_until == Task_days_until_due(t, clock)
         IN  IF Task_is_overdue(t, clock) THEN "overdue"
             ELSE IF days_until = 0 THEN "due today"
             ELSE IF days_until <= 3 THEN "due in days, warning"
             ELSE "due in days"

\* app.py task_list: every result the query and the rendering can give.  The
\* rows that the order_by leaves tied come in any order.
task_list(d, status_filter, category_filter, clock) ==
    LET ids == {i \in DOMAIN d.rows :
                    Selected(d.rows[i], status_filter, category_filter, clock)}
        n == Cardinality(ids)
        orders == {o \in [1..n -> ids] :
                      /\ \A i, j \in 1..n : i # j => o[i] # o[j]
                      /\ \A i, j \in 1..n :
                             i < j => ~RowBefore(d.dialect, d.rows[o[j]], d.rows[o[i]])}
    IN  {[rendered |-> TRUE,
          status_filter |-> status_filter,
          category_filter |-> category_filter,
          order |-> o,
          status_class |-> [i \in ids |-> CardStatusClass(d.rows[i], clock)],
          due_text |-> [i \in ids |-> CardDueText(d.rows[i], clock)]] : o \in orders}

\* a due date more than TaskSentinel days after the window
FarTaskDue == Date(2027, 1, 1)
ListDueDates == {WindowStart, NextDay(WindowStart), FarTaskDue}

\* The tables of two tasks: one of any priority, due date, status and
\* activity, and one open active task of any priority and due date.
TaskTables ==
    [dialect : Dialects,
     rows : {r \in [{"t1", "t2"} ->
                     [status : TaskStatuses, priority : {"low", "medium", "high", "urgent"},
                      category : {"other"}, due_date : Opt(ListDueDates),
                      is_active : BOOLEAN]] :
                 r["t2"].status = "pending" /\ r["t2"].is_active}]

(***************************************************************************)
(* The maintenance_items table of the aggregations                         *)
(***************************************************************************)
MaxItems == 2           \* the table holds up to MaxItems rows

\* rows of two categories and two priorities, active or not, due on one of the
\* first two days or unscheduled
AggItems ==
    {[DefaultItem EXCEPT !.category = c, !.priority = p, !.is_active = a,
                         !.next_due_date = d] :
        c \in {"HVAC", "Plumbing"}, p \in {"medium", "high"}, a \in BOOLEAN,
        d \in Opt({WindowStart, NextDay(WindowStart)})}

RECURSIVE TablesUpTo(_, _)
TablesUpTo(rows, n) ==
    IF n = 0 THEN {<<>>}
    ELSE LET shorter == TablesUpTo(rows, n - 1)
         IN  shorter \cup {Append(t, r) : t \in shorter, r \in rows}

\* app.py render_dashboard over maintenance_items
RenderDashboardItems ==
    /\ \E r \in ClockReads(today) :
           /\ dash' = render_dashboard(maintenance_items, r)
           /\ today' = r[4]
           /\ timeOfDay' = IF r[4] = today THEN timeOfDay ELSE 0
    /\ chart' = NotRendered
    /\ UNCHANGED <<item, upc, task, stats, task0, lastOp, db, listing,
                   maintenance_items, sessions, utcnow, ret>>

\* app.py category_chart
CategoryChart ==
    /\ chart' = category_chart(maintenance_items)
    /\ dash' = NotRendered
    /\ UNCHANGED <<today, timeOfDay, item, upc, task, stats, task0, lastOp, db, listing,
                   maintenance_items, sessions, utcnow, ret>>

\* app.py priority_chart
PriorityChart ==
    /\ chart' = priority_chart(maintenance_items)
    /\ dash' = NotRendered
    /\ UNCHANGED <<today, timeOfDay, item, upc, task, stats, task0, lastOp, db, listing,
                   maintenance_items, sessions, utcnow, ret>>

\* the session store and the returned value of the specifications without sessions
NoSessions == [t \in {} |-> 0]
NoReturn == [op |-> "none"]

\* the ids of the rows of the tasks table, and the rows in the order of the ids
TaskIds == <<"t1", "t2">>
TaskRows(d) == [i \in DOMAIN TaskIds |-> d.rows[TaskIds[i]]]

\* app.py task_stats over the tasks table
TaskStatsRows ==
    /\ stats' = task_stats(TaskRows(db), today)
    /\ UNCHANGED <<today, timeOfDay, item, dash, upc, task, task0, lastOp, db, listing,
                   maintenance_items, chart, sessions, utcnow, ret>>

\* the task list of the specifications that have no task list
NoTasks == [dialect |-> "sqlite", rows |-> <<>>]

\* app.py task_list with the filters the user selected
TaskList ==
    /\ \E status_filter \in StatusFilters, category_filter \in CategoryFilters :
           listing' \in task_list(db, status_filter, category_filter, today)
    /\ UNCHANGED <<today, timeOfDay, item, dash, upc, task, stats, task0, lastOp, db, maintenance_items, chart, sessions, utcnow, ret>>

(***************************************************************************)
(* config/auth.py: the session store. Times are seconds since the store was *)
(* made: datetime.utcnow() read to the second, the resolution at which     *)
(* jwt.encode writes the iat and exp of a token.                           *)
(***************************************************************************)
SESSION_TIMEOUT_MINUTES == 60
ACCESS_TOKEN_EXPIRE_MINUTES == 30
MaxPeriods == 1         \* the clock runs over MaxPeriods timeouts
MaxSessions == 2        \* the store holds up to MaxSessions sessions

\* timedelta(minutes=settings.SESSION_TIMEOUT_MINUTES), in seconds
SessionTimeout == SESSION_TIMEOUT_MINUTES * 60

\* the clock values: the start of each period and the second after it
Instants == {k * SessionTimeout + j : k \in 0..MaxPeriods, j \in 0..1}

\* The values n successive reads of datetime.utcnow() can return when the first
\* returns t: the second changes at most once while one call runs.
SessionReads(t, n) ==
    {[i \in 1..n |-> t]} \cup
    (IF t + 1 \in Instants
     THEN {[i \in 1..n |-> IF i < k THEN t ELSE t + 1] : k \in 2..n}
     ELSE {})

Users ==
    {[user_id |-> 1, username |-> "admin", role |-> "admin"],
     [user_id |-> 2, username |-> "mom", role |-> "family_member"]}

\* AuthManager.create_session_token and create_access_token: the HS256 token
\* of the claims sub, username, role, iat and exp is a function of the claims,
\* so it is represented by them; iat and exp are two reads of the clock.
create_session_token(user, r1, r2) ==
    [sub |-> user.user_id, username |-> user.username, role |-> user.role,
     iat |-> r1, exp |-> r2 + ACCESS_TOKEN_EXPIRE_MINUTES * 60]

\* the tokens that can be issued
Tokens ==
    {create_session_token(u, r[1], r[2]) : u \in Users,
         r \in UNION {SessionReads(t, 2) : t \in Instants}}

\* SessionManager.create_session; r holds the reads of iat, exp, created_at
\* and last_activity
create_session(store, user, r) ==
    LET token == create_session_token(user, r[1], r[2])
        session_data == [user_id |-> user.user_id, username |-> user.username,
                         role |-> user.role, created_at |-> r[3],
                         last_activity |-> r[4], token |-> token]
    IN  [store |-> [t \in DOMAIN store \cup {token} |->
                        IF t = token THEN session_data ELSE store[t]],
         value |-> token]

\* SessionManager.destroy_session
destroy_session(store, token) ==
    IF token \in DOMAIN store
    THEN [store |-> [t \in DOMAIN store \ {token} |-> store[t]], value |-> TRUE]
    ELSE [store |-> store, value |-> FALSE]

\* what validate_session returns of a session
UserData(session_data) ==
    [user_id |-> session_data.user_id, username |-> session_data.username,
     role |-> session_data.role]

\* SessionManager.validate_session; r holds the read of the expiry test and the
\* read of the refresh, clock is the last read made
validate_session(store, token, r) ==
    IF token \notin DOMAIN store
    THEN [store |-> store, value |-> None, expired |-> FALSE, clock |-> r[1]]
    ELSE IF r[1] - store[token].last_activity > SessionTimeout
    THEN [store |-> destroy_session(store, token).store, value |-> None,
          expired |-> TRUE, clock |-> r[1]]
    ELSE [store |-> [store EXCEPT ![token].last_activity = r[2]],
          value |-> Some(UserData(store[token])), expired |-> FALSE, clock |-> r[2]]

\* cleanup removing the sessions idle for the timeout or longer
cleanup_expired_sessions_AtTimeout(store, current_time) ==
    LET expired_tokens ==
            {t \in DOMAIN store :
                 current_time - store[t].last_activity >= SessionTimeout}
    IN  [store |-> [t \in DOMAIN store \ expired_tokens |-> store[t]],
         value |-> Cardinality(expired_tokens)]

\* SessionManager.cleanup_expired_sessions
cleanup_expired_sessions(store, current_time) ==
    LET expired_tokens ==
            {t \in DOMAIN store :
                 current_time - store[t].last_activity > SessionTimeout}
    IN  [store |-> [t \in DOMAIN store \ expired_tokens |-> store[t]],
         value |-> Cardinality(expired_tokens)]

\* time passes between two calls
Elapse ==
    /\ \E t \in Instants : t > utcnow /\ utcnow' = t
    /\ UNCHANGED <<today, timeOfDay, item, dash, upc, task, stats, task0, lastOp, db,
                   listing, maintenance_items, chart, sessions, ret>>

CreateSession ==
    /\ \E user \in Users, r \in SessionReads(utcnow, 4) :
           LET res == create_session(sessions, user, r)
           IN  /\ Cardinality(DOMAIN res.store) <= MaxSessions
               /\ sessions' = res.store
               /\ utcnow' = r[4]
               /\ ret' = [op |-> "create_session", token |-> res.value]
    /\ UNCHANGED <<today, timeOfDay, item, dash, upc, task, stats, task0, lastOp, db,
                   listing, maintenance_items, chart>>

ValidateSession(token) ==
    /\ \E r \in SessionReads(utcnow, 2) :
           LET res == validate_session(sessions, token, r)
           IN  /\ sessions' = res.store
               /\ utcnow' = res.clock
               /\ ret' = [op |-> "validate_session", token |-> token,
                          value |-> res.value, expired |-> res.expired,
                          at |-> r[1]]
    /\ UNCHANGED <<today, timeOfDay, item, dash, upc, task, stats, task0, lastOp, db,
                   listing, maintenance_items, chart>>

DestroySession(token) ==
    /\ LET res == destroy_session(sessions, token)
       IN  /\ sessions' = res.store
           /\ ret' = [op |-> "destroy_session", token |-> token, value |-> res.value]
    /\ UNCHANGED <<today, timeOfDay, item, dash, upc, task, stats, task0, lastOp, db,
                   listing, maintenance_items, chart, utcnow>>

CleanupExpiredSessions ==
    /\ LET res == cleanup_expired_sessions(sessions, utcnow)
       IN  /\ sessions' = res.store
           /\ ret' = [op |-> "cleanup_expired_sessions", value |-> res.value,
                      at |-> utcnow]
    /\ UNCHANGED <<today, timeOfDay, item, dash, upc, task, stats, task0, lastOp, db,
                   listing, maintenance_items, chart, utcnow>>

(***************************************************************************)
(* Specifications                                                          *)
(***************************************************************************)
\* The maintenance lifecycle and its classification
InitMaint ==
    /\ today = WindowStart
    /\ timeOfDay = 0
    /\ item \in NewItems
    /\ dash = NotRendered
    /\ upc = NotRendered
    /\ task = DefaultTask
    /\ stats = NotRendered
    /\ task0 = DefaultTask
    /\ lastOp = NoCall
    /\ db = NoTasks
    /\ listing = NotRendered
    /\ maintenance_items = <<>>
    /\ chart = NotRendered
    /\ sessions = NoSessions
    /\ utcnow = 0
    /\ ret = NoReturn

NextMaint ==
    Tick \/ MarkCompleted \/ CalculateNextDue \/ RenderDashboard \/ UpcomingMaintenance

SpecMaint == InitMaint /\ [][NextMaint]_vars

\* The task lifecycle
InitTask ==
    /\ today = WindowStart
    /\ timeOfDay = 0
    /\ item = DefaultItem
    /\ dash = NotRendered
    /\ upc = NotRendered
    /\ task \in NewTasks
    /\ stats = NotRendered
    /\ task0 = task
    /\ lastOp = NoCall
    /\ db = NoTasks
    /\ listing = NotRendered
    /\ maintenance_items = <<>>
    /\ chart = NotRendered
    /\ sessions = NoSessions
    /\ utcnow = 0
    /\ ret = NoReturn

NextTask == Tick \/ Advance \/ TaskMarkCompleted \/ TaskMarkInProgress \/ TaskStats

SpecTask == InitTask /\ [][NextTask]_vars

\* The aggregations over the maintenance_items table
InitAgg ==
    /\ today = WindowStart
    /\ timeOfDay = 0
    /\ item = DefaultItem
    /\ dash = NotRendered
    /\ upc = NotRendered
    /\ task = DefaultTask
    /\ stats = NotRendered
    /\ task0 = DefaultTask
    /\ lastOp = NoCall
    /\ db = NoTasks
    /\ listing = NotRendered
    /\ maintenance_items \in TablesUpTo(AggItems, MaxItems)
    /\ chart = NotRendered
    /\ sessions = NoSessions
    /\ utcnow = 0
    /\ ret = NoReturn

NextAgg == Tick \/ RenderDashboardItems \/ CategoryChart \/ PriorityChart

SpecAgg == InitAgg /\ [][NextAgg]_vars

\* The task statistics over the tasks table
InitStats ==
    /\ today = WindowStart
    /\ timeOfDay = 0
    /\ item = DefaultItem
    /\ dash = NotRendered
    /\ upc = NotRendered
    /\ task = DefaultTask
    /\ stats = NotRendered
    /\ task0 = DefaultTask
    /\ lastOp = NoCall
    /\ db \in TaskTables
    /\ listing = NotRendered
    /\ maintenance_items = <<>>
    /\ chart = NotRendered
    /\ sessions = NoSessions
    /\ utcnow = 0
    /\ ret = NoReturn

NextStats == Tick \/ TaskStatsRows

SpecStats == InitStats /\ [][NextStats]_vars

\* The session store
InitSession ==
    /\ today = WindowStart
    /\ timeOfDay = 0
    /\ item = DefaultItem
    /\ dash = NotRendered
    /\ upc = NotRendered
    /\ task = DefaultTask
    /\ stats = NotRendered
    /\ task0 = DefaultTask
    /\ lastOp = NoCall
    /\ db = NoTasks
    /\ listing = NotRendered
    /\ maintenance_items = <<>>
    /\ chart = NotRendered
    /\ sessions = NoSessions
    /\ utcnow = 0
    /\ ret = NoReturn

\* The tokens a caller can present: tokens are signed, so they are the tokens
\* that were issued; of those the stored ones and the one of the last call are
\* kept.
KnownTokens ==
    DOMAIN sessions \cup
    (IF ret.op \in {"create_session", "validate_session", "destroy_session"}
     THEN {ret.token} ELSE {})

NextSession ==
    \/ Elapse
    \/ CreateSession
    \/ \E token \in KnownTokens : ValidateSession(token)
    \/ \E token \in KnownTokens : DestroySession(token)
    \/ CleanupExpiredSessions

SpecSession == InitSession /\ [][NextSession]_vars

\* The task list
InitList ==
    /\ today = WindowStart
    /\ timeOfDay = 0
    /\ item = DefaultItem
    /\ dash = NotRendered
    /\ upc = NotRendered
    /\ task = DefaultTask
    /\ stats = NotRendered
    /\ task0 = DefaultTask
    /\ lastOp = NoCall
    /\ db \in TaskTables
    /\ listing = NotRendered
    /\ maintenance_items = <<>>
    /\ chart = NotRendered
    /\ sessions = NoSessions
    /\ utcnow = 0
    /\ ret = NoReturn

NextList == Tick \/ TaskList

SpecList == InitList /\ [][NextList]_vars

\* The recurrence calculator on every anchor date and frequency
InitCalc ==
    /\ today = WindowStart
    /\ timeOfDay = 0
    /\ \E anchor \in CalcDates, n \in 1..MaxCalcMonths :
           item = [DefaultItem EXCEPT !.last_completed_date = Some(anchor),
                                      !.frequency_months = Some(n)]
    /\ dash = NotRendered
    /\ upc = NotRendered
    /\ task = DefaultTask
    /\ stats = NotRendered
    /\ task0 = DefaultTask
    /\ lastOp = NoCall
    /\ db = NoTasks
    /\ listing = NotRendered
    /\ maintenance_items = <<>>
    /\ chart = NotRendered
    /\ sessions = NoSessions
    /\ utcnow = 0
    /\ ret = NoReturn

NextCalc == CalculateNextDue

SpecCalc == InitCalc /\ [][NextCalc]_vars

(***************************************************************************)
(* Properties of the maintenance classification and lifecycle              *)
(***************************************************************************)
\* The classification of a due date d (None when absent) on the day t, as stated:
\* overdue beats due-soon beats upcoming, and no due date is no schedule.
Classify(d, t) ==
    IF d = None THEN "no_schedule"
    ELSE IF ToOrdinal(t) > ToOrdinal(Get(d)) THEN "overdue"
    ELSE IF ToOrdinal(Get(d)) - ToOrdinal(t) <= 7 THEN "due_soon"
    ELSE "upcoming"

\* the dashboard was computed with every clock read returning t
DashReadAt(t) == dash.rendered /\ \A i \in 1..3 : dash.reads[i] = t

\* the upcoming list was computed with every clock read returning t
UpcReadAt(t) == upc.rendered /\ \A i \in 1..2 : upc.reads[i] = t

UpcTag ==
    IF ~upc.listed THEN "no_schedule"
    ELSE IF upc.status_class = "status-overdue" THEN "overdue"
    ELSE IF upc.status_class = "status-due-soon" THEN "due_soon"
    ELSE "upcoming"

\* C1: computed for one value t of today, the dashboard counts the item as overdue
\* iff its due date is present and t is after it, as due-soon iff it is not overdue
\* and the due date is 0 to 7 days ahead, and never as both; the upcoming list
\* tags it overdue, due-soon or upcoming by the same rule (due today and due in 7
\* days are due-soon, due in 8 days is upcoming), and both agree.
C1_ClassificationByPriority ==
    \A t \in ClockDates :
        LET tag == Classify(item.next_due_date, t) IN
        /\ DashReadAt(t) =>
               /\ (dash.overdue_items = 1) <=> (tag = "overdue")
               /\ (dash.due_soon_items = 1) <=> (tag = "due_soon")
               /\ dash.overdue_items + dash.due_soon_items <= 1
        /\ UpcReadAt(t) =>
               /\ UpcTag = tag
               /\ item.next_due_date = Some(t) => UpcTag = "due_soon"
               /\ item.next_due_date = Some(PlusDays(t, 7)) => UpcTag = "due_soon"
               /\ item.next_due_date = Some(PlusDays(t, 8)) => UpcTag = "upcoming"
               /\ (item.next_due_date # None /\ DateGT(t, Get(item.next_due_date)))
                      => UpcTag = "overdue"
        /\ (DashReadAt(t) /\ UpcReadAt(t)) =>
               /\ (dash.overdue_items = 1) <=> (UpcTag = "overdue")
               /\ (dash.due_soon_items = 1) <=> (UpcTag = "due_soon")

\* C1 witness: both pages computed on one day for an item due 7 days later
C1_Witness ==
    /\ DashReadAt(today) /\ UpcReadAt(today)
    /\ item.next_due_date = Some(PlusDays(today, 7))
    /\ dash.due_soon_items = 1
    /\ upc.status_class = "status-due-soon"

\* C2: an item without a due date is never overdue and never due-soon, is not in
\* the upcoming list, has days_until_due 999999, and every item that has a due
\* date has a smaller days_until_due than that.
C2_NoScheduleSortsLast ==
    /\ item.next_due_date = None =>
           /\ ~MaintenanceItem_is_overdue(item, today)
           /\ MaintenanceItem_days_until_due(item, today) = 999999
           /\ dash.rendered => dash.overdue_items = 0 /\ dash.due_soon_items = 0
           /\ upc.rendered => ~upc.listed
    /\ (upc.rendered /\ upc.listed) =>
           upc.days_until < MaintenanceItem_days_until_due(
                                [item EXCEPT !.next_due_date = None], today)

\* n calendar months after dt: the month moves by n, the day is kept or clamped
MonthsAfter(dt, n) ==
    LET idx == dt.year * 12 + (dt.month - 1) + n
        y   == idx \div 12
        m   == (idx % 12) + 1
    IN  Date(y, m, IF dt.day <= DaysInMonth(y, m) THEN dt.day ELSE DaysInMonth(y, m))

\* C3: completing a recurring item (with a frequency) sets next_due_date to the
\* completion date just recorded advanced by frequency_months calendar months and
\* leaves the status pending; no step leaves a recurring item completed.
C3_RecurringRollsOver ==
    [][/\ (MarkCompleted /\ item.is_recurring /\ item.frequency_months # None) =>
              /\ item'.last_completed_date # None
              /\ item'.next_due_date =
                     Some(MonthsAfter(Get(item'.last_completed_date),
                                      Get(item.frequency_months)))
              /\ item'.status = "pending"
       /\ item.is_recurring => item'.status # "completed"]_vars

\* C3 witness: the monthly item completed on 2024-03-10 is due on 2024-04-10
C3_Witness ==
    /\ item.is_recurring
    /\ item.frequency_months = Some(1)
    /\ item.last_completed_date = Some(Date(2024, 3, 10))
    /\ item.next_due_date = Some(Date(2024, 4, 10))
    /\ item.status = "pending"

\* C4: completing a non-recurring item sets the status to completed and leaves
\* next_due_date as it was, whatever it was and whatever frequency_months is.
C4_NonRecurringKeepsDueDate ==
    [][(MarkCompleted /\ ~item.is_recurring) =>
           /\ item'.status = "completed"
           /\ item'.next_due_date = item.next_due_date]_vars

\* C4 witness: a completed non-recurring item with a frequency and a due date
C4_Witness ==
    /\ ~item.is_recurring
    /\ item.status = "completed"
    /\ item.last_completed_date # None
    /\ item.frequency_months = Some(1)
    /\ item.next_due_date = Some(WindowStart)

\* C5: the computed date is n calendar months after the anchor: the month index
\* moves by n, the day of the month is kept when the target month has it and is
\* otherwise the last day of that month (2024-01-31 + 1 = 2024-02-29, 2023-01-31
\* + 1 = 2023-02-28), which is not the anchor plus 30 days.
C5_CalendarMonths ==
    item.next_due_date # None =>
        LET a == Get(item.last_completed_date)
            n == Get(item.frequency_months)
            r == Get(item.next_due_date)
        IN  /\ r.month \in 1..12
            /\ r.year * 12 + r.month = a.year * 12 + a.month + n
            /\ r.day = Min(a.day, DaysInMonth(r.year, r.month))
            /\ (a = Date(2024, 1, 31) /\ n = 1) =>
                   r = Date(2024, 2, 29) /\ r # PlusDays(a, 30)
            /\ (a = Date(2023, 1, 31) /\ n = 1) => r = Date(2023, 2, 28)

\* C5 witness: the leap-year clamp has been computed
C5_Witness ==
    /\ item.last_completed_date = Some(Date(2024, 1, 31))
    /\ item.frequency_months = Some(1)
    /\ item.next_due_date = Some(Date(2024, 2, 29))

(***************************************************************************)
(* Properties of the task lifecycle                                        *)
(***************************************************************************)
\* C6: for a task created pending with no completed_date, after any sequence of
\* mark_in_progress and mark_completed, completed_date is set iff the status is
\* completed.
C6_CompletedDateIffCompleted ==
    (task0.status = "pending" /\ task0.completed_date = None) =>
        ((task.completed_date # None) <=> (task.status = "completed"))

\* the task is past its due date on the day t and in neither terminal status
PastDueAndOpen(t) ==
    /\ task.due_date # None
    /\ task.status \notin {"completed", "cancelled"}
    /\ ToOrdinal(t) > ToOrdinal(Get(task.due_date))

\* C7: is_overdue is true iff the due date is present, the status is neither
\* completed nor cancelled and today is after the due date (a task due today is
\* not overdue); the statistics count the active task as overdue exactly then.
C7_TaskOverdueIff ==
    /\ Task_is_overdue(task, today) <=> PastDueAndOpen(today)
    /\ task.due_date = Some(today) => ~Task_is_overdue(task, today)
    /\ stats.rendered =>
           ((stats.overdue_tasks = 1) <=> (task.is_active /\ PastDueAndOpen(today)))

\* C7 witness: the statistics counted an open task the day after its due date
C7_Witness ==
    /\ stats.rendered
    /\ stats.overdue_tasks = 1
    /\ task.status = "in_progress"
    /\ task.due_date = Some(WindowStart)
    /\ today = NextDay(WindowStart)

\* C8: completing a task leaves its due_date unchanged and the task not overdue,
\* and it stays not overdue on every later day while its status stays completed;
\* a pending task due yesterday is overdue before the command and not after it.
C8_CompletedNeverOverdue ==
    [][/\ TaskMarkCompleted =>
              /\ task'.due_date = task.due_date
              /\ ~Task_is_overdue(task', today')
       /\ (TaskMarkCompleted /\ task.status = "pending"
             /\ task.due_date # None /\ today = NextDay(Get(task.due_date))) =>
              /\ Task_is_overdue(task, today)
              /\ ~Task_is_overdue(task', today')
       /\ (task.status = "completed" /\ task'.status = "completed") =>
              ~Task_is_overdue(task', today')
       /\ (task'.status = "completed" /\ stats'.rendered) => stats'.overdue_tasks = 0]_vars

\* C8 witness: a task created pending, completed, now past its due date and
\* counted as not overdue
C8_Witness ==
    /\ task0.status = "pending"
    /\ task.status = "completed"
    /\ task.is_active
    /\ task.due_date = Some(WindowStart)
    /\ Get(task.completed_date).date = WindowStart
    /\ today = NextDay(WindowStart)
    /\ stats.rendered
    /\ stats.overdue_tasks = 0

\* the text of optional notes ('' for None)
NotesText(notes) == IF notes = None THEN <<>> ELSE Get(notes)

IsSuffix(p, s) == Len(p) <= Len(s) /\ SubSeq(s, Len(s) - Len(p) + 1, Len(s)) = p

\* C9: mark_completed sets the status to completed and completed_date to the
\* current time; the notes change iff completed_by is supplied and non-empty, and
\* then they end with the attribution and keep the previous notes as a prefix.
C9_AttributionAppended ==
    [][\A completed_by \in CompletedByValues :
           (TaskMarkCompleted /\ task' = Task_mark_completed(task, completed_by, Now)) =>
               /\ task'.status = "completed"
               /\ task'.completed_date = Some(Now)
               /\ (completed_by = None \/ completed_by = Some(<<>>)) =>
                      task'.notes = task.notes
               /\ (completed_by # None /\ completed_by # Some(<<>>)) =>
                      /\ task'.notes # None
                      /\ IsSuffix(<<"C", "o", "m", "p", "l", "e", "t", "e", "d", " ",
                                    "b", "y", ":", " ">> \o Get(completed_by),
                                  Get(task'.notes))
                      /\ Len(Get(task'.notes)) > Len(NotesText(task.notes))
                      /\ IsPrefix(NotesText(task.notes), Get(task'.notes))]_vars

\* C10: mark_in_progress sets the status to in_progress and sets start_date to
\* today only when it is absent; once set, start_date is never changed or
\* cleared; whenever the status is in_progress, start_date is set.
C10_StartDateSetOnce ==
    /\ [](task.status = "in_progress" => task.start_date # None)
    /\ [][/\ TaskMarkInProgress =>
                 /\ task'.status = "in_progress"
                 /\ task.start_date = None => task'.start_date = Some(today)
          /\ task.start_date # None => task'.start_date = task.start_date]_vars

\* C10 witness: started on the first day, completed and started again on the
\* last day, with start_date still the first day
C10_Witness ==
    /\ task0.status = "pending"
    /\ task.status = "in_progress"
    /\ task.start_date = Some(WindowStart)
    /\ task.completed_date # None
    /\ Get(task.completed_date).date = LastDay
    /\ today = LastDay

\* C11: start_progress is idempotent: invoked again on a task whose last command
\* was start_progress, on the same or on a later day, it leaves every field of
\* the task (status, start_date, completed_date, due_date, notes) as it was.
C11_StartProgressIdempotent ==
    [][(TaskMarkInProgress /\ lastOp.op = "mark_in_progress") => task' = task]_vars

\* a task created pending, started on the first day and started again on the last
C11_Witness ==
    /\ task0.status = "pending"
    /\ lastOp = [op |-> "mark_in_progress", day |-> Some(LastDay)]
    /\ task.status = "in_progress"
    /\ task.start_date = Some(WindowStart)
    /\ task.completed_date = None

(***************************************************************************)
(* Properties of the task list                                             *)
(***************************************************************************)
\* the rank of a priority as stated: urgent > high > medium > low
PriorityRank(p) ==
    CASE p = "urgent" -> 4 [] p = "high" -> 3 [] p = "medium" -> 2 [] p = "low" -> 1

\* C12: in the task list, of any two listed tasks of different priority the
\* one of higher priority (urgent > high > medium > low) comes first.
C12_HigherPriorityFirst ==
    listing.rendered =>
        \A i, j \in DOMAIN listing.order :
            LET a == db.rows[listing.order[i]]
                b == db.rows[listing.order[j]]
            IN  (i < j /\ a.priority # b.priority)
                    => PriorityRank(a.priority) > PriorityRank(b.priority)

\* C13: days_until_due of a task is the number of days from today to its due
\* date, and 999 without a due date; of two tasks of equal priority the one
\* without a due date has the larger key, so it sorts after the dated one when
\* the tasks are ordered by this key ascending.
C13_NoDueDateSortsLastByKey ==
    \A i, j \in DOMAIN db.rows :
        LET a == db.rows[i]
            b == db.rows[j]
        IN  /\ a.due_date # None =>
                   Task_days_until_due(a, today)
                       = ToOrdinal(Get(a.due_date)) - ToOrdinal(today)
            /\ a.due_date = None => Task_days_until_due(a, today) = 999
            /\ (a.priority = b.priority /\ a.due_date # None /\ b.due_date = None)
                   => Task_days_until_due(a, today) < Task_days_until_due(b, today)

(***************************************************************************)
(* Properties of the maintenance commands                                  *)
(***************************************************************************)
\* C14: cancelled is terminal and completed is terminal for a non-recurring
\* item: no command changes the status of a cancelled item, nor the status of
\* a completed item that does not recur.
C14_CancelledIsTerminal ==
    [][/\ item.status = "cancelled" => item'.status = "cancelled"
       /\ (item.status = "completed" /\ ~item.is_recurring)
              => item'.status = "completed"]_vars

\* C15: mark_completed(completion_date, actual_cost) sets last_completed_date to
\* completion_date when it is supplied and to today otherwise; it stores
\* actual_cost when it is supplied, a cost of 0 included, and leaves the stored
\* cost as it was when it is omitted.
C15_CompletionDateAndCost ==
    [][\A completion_date \in Opt(CompletionDates), actual_cost \in Opt(Costs) :
           (/\ lastOp'.op = "mark_completed"
            /\ item' = MaintenanceItem_mark_completed(item, completion_date,
                                                      actual_cost, today))
           => /\ item'.last_completed_date =
                     (IF completion_date # None THEN completion_date ELSE Some(today))
              /\ item'.actual_cost =
                     (IF actual_cost # None THEN actual_cost ELSE item.actual_cost)]_vars

\* C15 witness: a completion with the date 2023-01-31 and the cost 0 supplied
C15_Witness ==
    /\ lastOp.op = "mark_completed"
    /\ item.last_completed_date = Some(Date(2023, 1, 31))
    /\ item.actual_cost = Some(0)

\* C16: the anchor of the recurrence is last_completed_date when present and
\* the current date otherwise; inside mark_completed it is the completion date
\* just recorded, whatever last_completed_date and next_due_date were before.
C16_AnchorIsLastCompletion ==
    [][/\ (CalculateNextDue /\ item.is_recurring /\ item.frequency_months # None) =>
              item'.next_due_date =
                  Some(MonthsAfter(IF item.last_completed_date # None
                                   THEN Get(item.last_completed_date) ELSE today,
                                   Get(item.frequency_months)))
       /\ (MarkCompleted /\ item.is_recurring /\ item.frequency_months # None) =>
              \E d \in CompletionDates \cup {today} :
                  /\ item'.last_completed_date = Some(d)
                  /\ item'.next_due_date =
                         Some(MonthsAfter(d, Get(item.frequency_months)))]_vars

\* C16 witness: a monthly item completed for 2023-01-31 is due on 2023-02-28,
\* a month after the recorded completion and not after today or a due date
C16_Witness ==
    /\ lastOp.op = "mark_completed"
    /\ item.is_recurring
    /\ item.frequency_months = Some(1)
    /\ item.last_completed_date = Some(Date(2023, 1, 31))
    /\ item.next_due_date = Some(Date(2023, 2, 28))

\* C17: a frequency_months of zero or less is rejected: computing or completing
\* a recurring item with frequency_months <= 0 leaves next_due_date as it was.
C17_NonPositiveFrequencyRejected ==
    [][((MarkCompleted \/ CalculateNextDue)
            /\ item.is_recurring
            /\ item.frequency_months # None
            /\ Get(item.frequency_months) <= 0)
           => item'.next_due_date = item.next_due_date]_vars

\* C18: the recurrence calculator invoked on an item that is not recurring or
\* has no frequency_months changes no field: next_due_date, last_completed_date
\* and status keep their values.
C18_CalculatorPrecondition ==
    [][(CalculateNextDue /\ (~item.is_recurring \/ item.frequency_months = None))
           => item' = item]_vars

\* C18 witness: the calculator was invoked on a non-recurring item that has a
\* frequency, was never completed and is still due on the first day
C18_Witness ==
    /\ lastOp.op = "calculate_next_due_date"
    /\ ~item.is_recurring
    /\ item.frequency_months = Some(1)
    /\ item.last_completed_date = None
    /\ item.next_due_date = Some(WindowStart)
    /\ item.status = "in_progress"

\* a recurring item with a positive frequency, whose last command was a
\* completion, is completed again with a different completion date
RedatedCompletion ==
    /\ MarkCompleted
    /\ lastOp.op = "mark_completed"
    /\ item.is_recurring
    /\ item.frequency_months # None
    /\ Get(item.frequency_months) > 0
    /\ item'.last_completed_date # item.last_completed_date

\* C19 as stated: completing the same recurring item twice with two different
\* completion dates yields two different next_due_date values, for every pair
\* of different dates and every positive frequency_months.
C19_DistinctDatesDistinctDue ==
    [][RedatedCompletion => item'.next_due_date # item.next_due_date]_vars

\* both dates lie in the same month, on or after the last day number of the
\* month that is n months later
BothClamped(d1, d2, n) ==
    LET last == DaysInMonth(MonthsAfter(d1, n).year, MonthsAfter(d1, n).month)
    IN  /\ d1.year = d2.year
        /\ d1.month = d2.month
        /\ d1.day >= last
        /\ d2.day >= last

\* C19, amended: the two next_due_date values differ unless the two completion
\* dates lie in the same month and both are clamped to the last day of the
\* target month, and then they are equal.
C19_DistinctUnlessClamped ==
    [][RedatedCompletion =>
           ((item'.next_due_date = item.next_due_date)
               <=> BothClamped(Get(item.last_completed_date),
                               Get(item'.last_completed_date),
                               Get(item.frequency_months)))]_vars

\* C19 witness: an item recurring every 2 months, completed for 2024-01-30 and
\* then for 2024-01-31, is due on 2024-03-31 (not on 2024-03-30 any more)
C19_Witness ==
    /\ lastOp = [op |-> "mark_completed", before |-> Some(Date(2024, 1, 30))]
    /\ item.is_recurring
    /\ item.frequency_months = Some(2)
    /\ item.last_completed_date = Some(Date(2024, 1, 31))
    /\ item.next_due_date = Some(Date(2024, 3, 31))

\* C20: one classification uses one clock value: whatever the clock does
\* between the reads of is_overdue() and days_until_due(), the item gets the
\* tag it has on one single day t among the days read, on the dashboard (where
\* it is counted as overdue or due-soon or neither) and in the upcoming list,
\* and it is never shown overdue with a days-until-due of 0 or more.
C20_OneClockValue ==
    /\ dash.rendered =>
           \E i \in 1..3 :
               LET tag == Classify(item.next_due_date, dash.reads[i])
               IN  /\ (dash.overdue_items = 1) <=> (tag = "overdue")
                   /\ (dash.due_soon_items = 1) <=> (tag = "due_soon")
    /\ (upc.rendered /\ upc.listed) =>
           /\ \E i \in 1..2 : UpcTag = Classify(item.next_due_date, upc.reads[i])
           /\ upc.status_class = "status-overdue" => upc.days_until < 0

(***************************************************************************)
(* Properties of the aggregations                                          *)
(***************************************************************************)
\* the sum of the values of a dict
RECURSIVE SumOf(_)
SumOf(counts) ==
    IF DOMAIN counts = {} THEN 0
    ELSE LET k == CHOOSE x \in DOMAIN counts : TRUE
         IN  counts[k] + SumOf([x \in DOMAIN counts \ {k} |-> counts[x]])

\* the indices of the active rows of maintenance_items
ActiveIndices == {i \in DOMAIN maintenance_items : maintenance_items[i].is_active}

\* counts is the aggregation of the active rows by the field, as stated
IsAggregation(counts, field) ==
    IF ActiveIndices = {}
    THEN DOMAIN counts = {"No Data"} /\ counts["No Data"] = 1
    ELSE /\ DOMAIN counts = {maintenance_items[i][field] : i \in ActiveIndices}
         /\ \A v \in DOMAIN counts :
                counts[v] = Cardinality({i \in ActiveIndices :
                                            maintenance_items[i][field] = v})
         /\ SumOf(counts) = Cardinality(ActiveIndices)

\* C21: the aggregation by category and by priority maps each distinct value
\* of the field to the number of rows that have it, the counts summing to the
\* size of the collection; over an empty collection it is {"No Data": 1},
\* never an empty mapping.  So on the dashboard and in the two charts.
C21_AggregateCounts ==
    /\ dash.rendered =>
           /\ IsAggregation(dash.category_counts, "category")
           /\ IsAggregation(dash.priority_counts, "priority")
    /\ (chart.rendered /\ chart.kind = "pie") => IsAggregation(chart.counts, "category")
    /\ (chart.rendered /\ chart.kind = "bar") => IsAggregation(chart.counts, "priority")

\* C21 witness: the dashboard of two active HVAC rows, one medium and one high
C21_Witness ==
    /\ dash.rendered
    /\ Len(maintenance_items) = 2
    /\ dash.total_items = 2
    /\ DOMAIN dash.category_counts = {"HVAC"}
    /\ dash.category_counts["HVAC"] = 2
    /\ DOMAIN dash.priority_counts = {"medium", "high"}

\* C22: completed_this_month of the dashboard counts the item iff it has a
\* last_completed_date whose month is the month of the current date, whatever
\* the year: a completion in the same month of an earlier year counts, and an
\* item never completed does not.
C22_CompletedThisMonth ==
    dash.rendered =>
        /\ dash.completed_this_month =
               (IF /\ item.last_completed_date # None
                   /\ Get(item.last_completed_date).month = dash.reads[4].month
                THEN 1 ELSE 0)
        /\ item.last_completed_date = None => dash.completed_this_month = 0

\* C22 witness: in January 2024 the item last completed on 2023-01-31 is counted
C22_Witness ==
    /\ dash.rendered
    /\ dash.reads[4].year = 2024
    /\ dash.reads[4].month = 1
    /\ item.last_completed_date = Some(Date(2023, 1, 31))
    /\ dash.completed_this_month = 1

\* the ids of the active tasks of the table that satisfy P
ActiveWith(P(_)) == {i \in DOMAIN db.rows : db.rows[i].is_active /\ P(db.rows[i])}
HasStatus(st) == ActiveWith(LAMBDA t : t.status = st)

\* C23: the task summary is (total, pending, in_progress, completed, overdue),
\* each status count being the number of tasks of exactly that status and
\* overdue the number of tasks for which is_overdue holds; so pending +
\* in_progress + completed <= total, the difference being the cancelled tasks,
\* and overdue <= pending + in_progress.
C23_TaskSummary ==
    stats.rendered =>
        /\ stats.total_tasks = Cardinality(ActiveWith(LAMBDA t : TRUE))
        /\ stats.pending_tasks = Cardinality(HasStatus("pending"))
        /\ stats.in_progress_tasks = Cardinality(HasStatus("in_progress"))
        /\ stats.completed_tasks = Cardinality(HasStatus("completed"))
        /\ stats.overdue_tasks =
               Cardinality(ActiveWith(LAMBDA t : Task_is_overdue(t, today)))
        /\ stats.pending_tasks + stats.in_progress_tasks + stats.completed_tasks
               <= stats.total_tasks
        /\ stats.total_tasks - (stats.pending_tasks + stats.in_progress_tasks
                                    + stats.completed_tasks)
               = Cardinality(HasStatus("cancelled"))
        /\ stats.overdue_tasks <= stats.pending_tasks + stats.in_progress_tasks

\* C23 witness: two active tasks, one cancelled and past due, one pending and
\* past due: total 2, pending 1, overdue 1
C23_Witness ==
    /\ stats.rendered
    /\ db.rows["t1"].is_active
    /\ db.rows["t1"].status = "cancelled"
    /\ db.rows["t1"].due_date = Some(WindowStart)
    /\ db.rows["t2"].due_date = Some(WindowStart)
    /\ stats.total_tasks = 2
    /\ stats.pending_tasks = 1
    /\ stats.overdue_tasks = 1

\* C24: no command on a task, mark_in_progress or mark_completed in any
\* sequence, changes its priority, category, due_date, assigned_to or
\* is_active: they are what they were when the task was created.
C24_TaskCommandFrame ==
    /\ task.priority = task0.priority
    /\ task.category = task0.category
    /\ task.due_date = task0.due_date
    /\ task.assigned_to = task0.assigned_to
    /\ task.is_active = task0.is_active

\* C24 witness: a task created pending, started and then completed by "u"
C24_Witness ==
    /\ task0.status = "pending"
    /\ lastOp.op = "mark_completed"
    /\ task.status = "completed"
    /\ task.start_date # None
    /\ task.notes # task0.notes
    /\ task.due_date # None
    /\ task.assigned_to = Some(<<"M", "o", "m">>)

\* C25: mark_completed without a completion_date on a recurring item whose
\* frequency_months is at least 1 leaves next_due_date strictly later than
\* today and than last_completed_date, so the item is not overdue right
\* after, whatever its due date was before.
C25_CompletedTodayNotOverdue ==
    [][(/\ MarkCompleted
        /\ item.is_recurring
        /\ item.frequency_months # None
        /\ Get(item.frequency_months) >= 1
        /\ \E actual_cost \in Opt(Costs) :
               item' = MaintenanceItem_mark_completed(item, None, actual_cost, today)) =>
           /\ item'.last_completed_date = Some(today)
           /\ item'.next_due_date # None
           /\ DateGT(Get(item'.next_due_date), today)
           /\ DateGT(Get(item'.next_due_date), Get(item'.last_completed_date))
           /\ ~MaintenanceItem_is_overdue(item', today)]_vars

\* C25 witness: an item completed today for the first time, due one month on
C25_Witness ==
    /\ lastOp.op = "mark_completed"
    /\ lastOp.before = None
    /\ item.is_recurring
    /\ item.frequency_months = Some(1)
    /\ item.last_completed_date = Some(today)
    /\ today = WindowStart
    /\ item.next_due_date = Some(Date(2024, 2, 29))
    /\ item.status = "pending"

\* C26: mark_completed on a recurring item without frequency_months updates
\* last_completed_date and ends with status pending, and next_due_date keeps
\* its value: an item overdue before the completion is overdue after it.
C26_NoFrequencyNoRollover ==
    [][(MarkCompleted /\ item.is_recurring /\ item.frequency_months = None) =>
           /\ item'.last_completed_date \in
                  {Some(today)} \cup {Some(d) : d \in CompletionDates}
           /\ item'.status = "pending"
           /\ item'.next_due_date = item.next_due_date
           /\ MaintenanceItem_is_overdue(item, today) =>
                  MaintenanceItem_is_overdue(item', today)]_vars

\* C26 witness: a recurring item without frequency, due yesterday, completed
\* today and still due yesterday
C26_Witness ==
    /\ lastOp.op = "mark_completed"
    /\ item.is_recurring
    /\ item.frequency_months = None
    /\ item.last_completed_date = Some(today)
    /\ item.status = "pending"
    /\ today = LastDay
    /\ item.next_due_date = Some(WindowStart)
    /\ MaintenanceItem_is_overdue(item, today)

C28_OverdueAndDueSoonDisjoint ==
    (dash.rendered /\ \A k \in 2..4 : dash.reads[k] = dash.reads[1]) =>
        LET t == dash.reads[1]
            active == ActiveItems(maintenance_items)
            dated == {i \in DOMAIN active : active[i].next_due_date # None}
        IN  /\ \A i \in DOMAIN active :
                   /\ ~(MaintenanceItem_is_overdue(active[i], t)
                           /\ Dashboard_is_due_soon(active[i], t, t))
                   /\ active[i].next_due_date = None =>
                          /\ ~MaintenanceItem_is_overdue(active[i], t)
                          /\ ~Dashboard_is_due_soon(active[i], t, t)
            /\ dash.total_items = Len(active)
            /\ dash.overdue_items + dash.due_soon_items <= dash.total_items
            /\ dash.overdue_items + dash.due_soon_items <= Cardinality(dated)

\* C28 witness: on the second day, one row due the day before and one row not
\* scheduled: one overdue, none due soon, two in total
C28_Witness ==
    /\ dash.rendered
    /\ dash.reads = <<LastDay, LastDay, LastDay, LastDay>>
    /\ Len(maintenance_items) = 2
    /\ maintenance_items[1].is_active /\ maintenance_items[2].is_active
    /\ maintenance_items[1].next_due_date = Some(WindowStart)
    /\ maintenance_items[2].next_due_date = None
    /\ dash.total_items = 2
    /\ dash.overdue_items = 1
    /\ dash.due_soon_items = 0

(***************************************************************************)
(* Properties of the session store                                         *)
(***************************************************************************)
\* the last call was a validate_session of the token that returned user data
Validated(token) ==
    ret.op = "validate_session" /\ ret.token = token /\ ret.value # None

\* the last call was a validate_session that found the token timed out
FoundExpired(token) ==
    ret.op = "validate_session" /\ ret.token = token /\ ret.expired

\* the last call was a destroy_session that removed the token
Destroyed(token) ==
    ret.op = "destroy_session" /\ ret.token = token /\ ret.value

\* validate_session returns the user data iff the token is stored and idle for
\* at most the timeout; it then refreshes last_activity, and it removes a
\* session found idle for longer; destroy_session removes the token and
\* returns true only when it was stored
SessionCallsAsStated ==
    [][\A token \in KnownTokens :
          /\ ValidateSession(token) =>
                 LET present == token \in DOMAIN sessions
                     fresh == present /\
                         ret'.at - sessions[token].last_activity <= SessionTimeout
                 IN  /\ (ret'.value # None) <=> fresh
                     /\ fresh =>
                            /\ ret'.value = Some(UserData(sessions[token]))
                            /\ token \in DOMAIN sessions'
                            /\ sessions'[token].last_activity = utcnow'
                            /\ sessions'[token].last_activity >= ret'.at
                     /\ (present /\ ~fresh) => token \notin DOMAIN sessions'
          /\ DestroySession(token) =>
                 /\ ret'.value <=> token \in DOMAIN sessions
                 /\ token \notin DOMAIN sessions']_vars

\* after a validation found the token timed out, or destroy_session removed
\* it, a validation of the token after the next call returns None
RevokedStaysInvalid ==
    [][\A token \in KnownTokens :
          (FoundExpired(token) \/ Destroyed(token)) =>
              validate_session(sessions', token, <<utcnow', utcnow'>>).value = None]_vars

\* C29: validate_session(token) returns the user data iff the token is in
\* active_sessions and idle for at most SESSION_TIMEOUT_MINUTES; a successful
\* validation refreshes last_activity, a validation after the timeout removes
\* the session and every later validation of the token returns None; after
\* destroy_session(token) the token never validates again, and destroy_session
\* returns true only when the token was present. "Never again" is stated for
\* the validation that follows the call after the removal.
C29_SessionValidity ==
    /\ SessionCallsAsStated
    /\ RevokedStaysInvalid

\* C30: cleanup_expired_sessions removes exactly the sessions idle for longer
\* than the timeout, returns their number and leaves every other session and
\* its data as it was; right after it no stored session is expired, and no
\* session that validate_session would accept has been removed.
C30_CleanupRemovesExactlyExpired ==
    [][CleanupExpiredSessions =>
          LET now == ret'.at
              Idle(t) == now - sessions[t].last_activity
              expired == {t \in DOMAIN sessions : Idle(t) > SessionTimeout}
          IN  /\ DOMAIN sessions' = DOMAIN sessions \ expired
              /\ ret'.value = Cardinality(expired)
              /\ \A t \in DOMAIN sessions' : sessions'[t] = sessions[t]
              /\ \A t \in DOMAIN sessions' :
                     ~(now - sessions'[t].last_activity > SessionTimeout)
              /\ \A t \in DOMAIN sessions :
                     validate_session(sessions, t, <<now, now>>).value # None
                         => t \in DOMAIN sessions']_vars

\* C30 witness: of two sessions, cleanup removed the one idle for a second
\* more than the timeout and kept the one idle for exactly the timeout
C30_Witness ==
    /\ ret.op = "cleanup_expired_sessions"
    /\ ret.value = 1
    /\ ret.at = utcnow
    /\ utcnow = SessionTimeout + 1
    /\ \E t \in DOMAIN sessions :
           /\ DOMAIN sessions = {t}
           /\ sessions[t].last_activity = 1
           /\ utcnow - sessions[t].last_activity = SessionTimeout

====
